---------------------------- MODULE Spec2Model ----------------------------
(***************************************************************************)
(* Model of the graph store (app/models/graph.py), the instrumented        *)
(* Dijkstra engine (app/models/dijkstra.py) and the timed search facade    *)
(* (app/services/path_service.py).                                         *)
(*                                                                         *)
(* Python dicts keep insertion order, so a dict is modelled by a sequence  *)
(* of its items where the order is observable (the vertex map, a vertex's  *)
(* neighbour map) and by a function where it is not (the adjacency map's   *)
(* keys, the engine's distances and previous maps).  Weights and distances *)
(* are floats in the code and naturals here; float("inf") and None are     *)
(* distinguished values that every comparison treats as the code does.     *)
(***************************************************************************)
EXTENDS Integers, Sequences, FiniteSets, TLC

(***************************************************************************)
(* Bounds of the model.                                                    *)
(***************************************************************************)
\* arc weights are drawn from 0..MaxWeight
MaxWeight == 1

\* edge records are added while the edge-record list is shorter than MaxEdges
MaxEdges == 2

\* a name that is never a vertex of a graph
Unknown == "Z"

\* Optional[str] None (no target, no predecessor, no neighbour, no current)
None == "None"
\* float("inf")
INF == -1
\* Optional[float] None (no total, no new_distance)
NoValue == -2

Weights == 0..MaxWeight

VARIABLES
    vertices,       \* Graph._vertices: sequence of Vertex records, insertion order
    edges,          \* Graph._edges: sequence of Edge records
    adjacency,      \* Graph._adjacency: name -> sequence of [neighbor, weight]
    pc,             \* position of the call in progress
    caller,         \* which entry point the client called
    invoked,        \* whether run_dijkstra was entered by this call
    outcome,        \* how the call ended: a result, None, or ValueError
    source,         \* arguments of the call
    target,
    distances,      \* run_dijkstra locals
    previous,
    visited,
    steps,
    current,
    queue,          \* items of graph.neighbors(current) not yet iterated
    path,           \* DijkstraResult.path
    total           \* DijkstraResult.total

graphVars == <<vertices, edges, adjacency>>
runVars == <<distances, previous, visited, steps, current, queue, path, total>>
vars == <<vertices, edges, adjacency, pc, caller, invoked, outcome, source,
          target, distances, previous, visited, steps, current, queue, path,
          total>>

(***************************************************************************)
(* Sequence helpers.                                                       *)
(***************************************************************************)
Range(s) == {s[i] : i \in DOMAIN s}

Reverse(s) == [i \in 1..Len(s) |-> s[Len(s) + 1 - i]]

(***************************************************************************)
(* Graph (graph.py).  A graph value is a record of the three fields.       *)
(***************************************************************************)
Vertex(name, x, y) == [name |-> name, x |-> x, y |-> y]

Edge(s, t, w) == [source |-> s, target |-> t, weight |-> w]

EmptyGraph ==
    [vertices |-> <<>>, edges |-> <<>>, adjacency |-> [k \in {} |-> <<>>]]

\* list(graph.vertices.keys())
VertexNames(vs) == [i \in 1..Len(vs) |-> vs[i].name]

\* name in graph.vertices
HasVertex(vs, name) == \E i \in DOMAIN vs : vs[i].name = name

\* the weight of a key already present is kept (setdefault instead of an
\* assignment)
SetItem_KeepFirst(nbrs, key, w) ==
    IF \E i \in DOMAIN nbrs : nbrs[i].neighbor = key
    THEN nbrs
    ELSE Append(nbrs, [neighbor |-> key, weight |-> w])

\* dict[key] = value on a neighbour map: overwrite in place, else append
SetItem(nbrs, key, w) ==
    IF \E i \in DOMAIN nbrs : nbrs[i].neighbor = key
    THEN [i \in DOMAIN nbrs |->
            IF nbrs[i].neighbor = key
            THEN [neighbor |-> key, weight |-> w] ELSE nbrs[i]]
    ELSE Append(nbrs, [neighbor |-> key, weight |-> w])

\* self._adjacency.setdefault(name, {})
SetDefault(adj, name) ==
    [k \in DOMAIN adj \cup {name} |-> IF k \in DOMAIN adj THEN adj[k] ELSE <<>>]

\* the early return is missing: an existing vertex is replaced by a new
\* record with the given position
AddVertex_Overwrite(g, name, x, y) ==
    IF HasVertex(g.vertices, name)
    THEN [g EXCEPT !.vertices =
            [i \in DOMAIN @ |->
                IF @[i].name = name THEN Vertex(name, x, y) ELSE @[i]]]
    ELSE [g EXCEPT !.vertices = Append(@, Vertex(name, x, y)),
                   !.adjacency = SetDefault(@, name)]

AddVertex(g, name, x, y) ==
    IF HasVertex(g.vertices, name) THEN g
    ELSE [g EXCEPT !.vertices = Append(@, Vertex(name, x, y)),
                   !.adjacency = SetDefault(@, name)]

\* the check source == target is missing
AddDirectedEdge_SelfLoops(g, s, t, w) ==
    LET g1 == IF HasVertex(g.vertices, s) THEN g ELSE AddVertex(g, s, 0, 0)
        g2 == IF HasVertex(g1.vertices, t) THEN g1 ELSE AddVertex(g1, t, 0, 0)
        adj == SetDefault(g2.adjacency, s)
    IN [g2 EXCEPT !.edges = Append(@, Edge(s, t, w)),
                  !.adjacency = [adj EXCEPT ![s] = SetItem(@, t, w)]]

AddDirectedEdge(g, s, t, w) ==
    IF s = t THEN g
    ELSE LET g1 == IF HasVertex(g.vertices, s) THEN g ELSE AddVertex(g, s, 0, 0)
             g2 == IF HasVertex(g1.vertices, t) THEN g1 ELSE AddVertex(g1, t, 0, 0)
             adj == SetDefault(g2.adjacency, s)
         IN [g2 EXCEPT !.edges = Append(@, Edge(s, t, w)),
                       !.adjacency = [adj EXCEPT ![s] = SetItem(@, t, w)]]

\* the second call, add_directed_edge(target, source, weight), is missing
AddUndirectedEdge_OneWay(g, s, t, w) == AddDirectedEdge(g, s, t, w)

AddUndirectedEdge(g, s, t, w) ==
    AddDirectedEdge(AddDirectedEdge(g, s, t, w), t, s, w)

\* graph.neighbors(name): self._adjacency.get(name, {})
Neighbors(adj, name) == IF name \in DOMAIN adj THEN adj[name] ELSE <<>>

\* nbrs.pop(key, None) on a neighbour map
PopItem(nbrs, key) ==
    LET Keep(it) == it.neighbor # key
    IN SelectSeq(nbrs, Keep)

\* the key is not popped: the removed vertex keeps its neighbour map
PopKey_Keep(adj, name) == adj

\* self._adjacency.pop(name, None)
PopKey(adj, name) == [k \in DOMAIN adj \ {name} |-> adj[k]]

\* self._adjacency.setdefault(source, {}).pop(target, None): an absent source
\* gets an adjacency key
PopArc_SetDefault(adj, s, t) == [SetDefault(adj, s) EXCEPT ![s] = PopItem(@, t)]

\* if source in self._adjacency: self._adjacency[source].pop(target, None)
PopArc(adj, s, t) ==
    IF s \in DOMAIN adj THEN [adj EXCEPT ![s] = PopItem(@, t)] ELSE adj

\* the loop that pops name from the other vertices' neighbour maps is missing
RemoveVertex_KeepEntries(g, name) ==
    IF ~HasVertex(g.vertices, name) THEN g
    ELSE LET KeepEdge(e) == e.source # name /\ e.target # name
             KeepVertex(v) == v.name # name
         IN [vertices |-> SelectSeq(g.vertices, KeepVertex),
             edges |-> SelectSeq(g.edges, KeepEdge),
             adjacency |-> PopKey(g.adjacency, name)]

\* the edge-record list is not filtered
RemoveVertex_KeepRecords(g, name) ==
    IF ~HasVertex(g.vertices, name) THEN g
    ELSE LET KeepVertex(v) == v.name # name
             adj == PopKey(g.adjacency, name)
         IN [vertices |-> SelectSeq(g.vertices, KeepVertex),
             edges |-> g.edges,
             adjacency |-> [k \in DOMAIN adj |-> PopItem(adj[k], name)]]

RemoveVertex(g, name) ==
    IF ~HasVertex(g.vertices, name) THEN g
    ELSE LET KeepEdge(e) == e.source # name /\ e.target # name
             KeepVertex(v) == v.name # name
             adj == PopKey(g.adjacency, name)
         IN [vertices |-> SelectSeq(g.vertices, KeepVertex),
             edges |-> SelectSeq(g.edges, KeepEdge),
             adjacency |-> [k \in DOMAIN adj |-> PopItem(adj[k], name)]]

\* backward-compatible name of add_undirected_edge
AddEdge(g, s, t, w) == AddUndirectedEdge(g, s, t, w)

\* the reverse arc target -> source is removed as well
RemoveDirectedEdge_BothWays(g, s, t) ==
    LET KeepEdge(e) == ~(\/ (e.source = s /\ e.target = t)
                         \/ (e.source = t /\ e.target = s))
    IN [g EXCEPT !.edges = SelectSeq(@, KeepEdge),
                 !.adjacency = PopArc(PopArc(@, s, t), t, s)]

\* only the adjacency entry is removed; the edge records stay
RemoveDirectedEdge_KeepRecords(g, s, t) ==
    [g EXCEPT !.adjacency = PopArc(@, s, t)]

RemoveDirectedEdge(g, s, t) ==
    LET KeepEdge(e) == ~(e.source = s /\ e.target = t)
    IN [g EXCEPT !.edges = SelectSeq(@, KeepEdge),
                 !.adjacency = PopArc(@, s, t)]

RemoveUndirectedEdge(g, s, t) ==
    LET KeepEdge(e) == ~(\/ (e.source = s /\ e.target = t)
                         \/ (e.source = t /\ e.target = s))
    IN [g EXCEPT !.edges = SelectSeq(@, KeepEdge),
                 !.adjacency = PopArc(PopArc(@, s, t), t, s)]

\* backward-compatible name of remove_undirected_edge
RemoveEdge(g, s, t) == RemoveUndirectedEdge(g, s, t)

SetVertexPosition(g, name, x, y) ==
    IF ~HasVertex(g.vertices, name) THEN AddVertex(g, name, x, y)
    ELSE [g EXCEPT !.vertices =
            [i \in DOMAIN @ |->
                IF @[i].name = name THEN Vertex(name, x, y) ELSE @[i]]]


(***************************************************************************)
(* Populating a graph through its mutation API, as the loader does:        *)
(* vertices first, then arcs.                                              *)
(***************************************************************************)
RECURSIVE AddVertices(_, _)
AddVertices(g, names) ==
    IF names = <<>> THEN g
    ELSE AddVertices(AddVertex(g, Head(names), 0, 0), Tail(names))

\* arcs: a function from the chosen (source, target) pairs to their weights;
\* pair number k of order is <<order[i], order[j]>>, row by row
RECURSIVE AddArcs(_, _, _, _)
AddArcs(g, order, arcs, k) ==
    LET n == Len(order)
        s == order[((k - 1) \div n) + 1]
        t == order[((k - 1) % n) + 1]
    IN IF k > n * n THEN g
       ELSE IF <<s, t>> \in DOMAIN arcs
            THEN AddArcs(AddDirectedEdge(g, s, t, arcs[<<s, t>>]), order, arcs, k + 1)
            ELSE AddArcs(g, order, arcs, k + 1)

LoadGraph(order, arcs) == AddArcs(AddVertices(EmptyGraph, order), order, arcs, 1)

(***************************************************************************)
(* Dijkstra engine (dijkstra.py).                                          *)
(***************************************************************************)
\* a < b on floats, where either may be float("inf")
DistLess(a, b) == a # INF /\ (b = INF \/ a < b)

Step(cur, nbr, nd, dist, vis) ==
    [current |-> cur, neighbor |-> nbr, new_distance |-> nd,
     distances |-> dist, visited |-> vis]

\* the path is returned as walked, target first
ReconstructPath_NoReverse(prev, src, tgt) ==
    LET cur == tgt
        RECURSIVE Back(_, _)
        Back(c, walked) ==
            IF c = None THEN walked
            ELSE IF c = src THEN Append(walked, c)
                 ELSE Back(IF c \in DOMAIN prev THEN prev[c] ELSE None,
                           Append(walked, c))
        walked == Back(cur, <<>>)
    IN IF walked = <<>> \/ walked[Len(walked)] # src THEN <<>> ELSE walked

\* previous.get(v)
Get(prev, v) == IF v \in DOMAIN prev THEN prev[v] ELSE None

\* the while loop of _reconstruct_path: the path walked back from cur
RECURSIVE WalkBack(_, _, _, _)
WalkBack(prev, src, cur, walked) ==
    IF cur = None THEN walked
    ELSE IF cur = src THEN Append(walked, cur)
         ELSE WalkBack(prev, src, Get(prev, cur), Append(walked, cur))

ReconstructPath(prev, src, tgt) ==
    LET walked == WalkBack(prev, src, tgt, <<>>)
    IN IF walked = <<>> \/ walked[Len(walked)] # src THEN <<>>
       ELSE Reverse(walked)

\* the for loop that finds the unvisited vertex of minimum distance
RECURSIVE ScanMin(_, _, _, _, _, _)
ScanMin(names, dist, vis, i, cur, curDist) ==
    IF i > Len(names) THEN cur
    ELSE IF names[i] \in Range(vis)
         THEN ScanMin(names, dist, vis, i + 1, cur, curDist)
         ELSE IF DistLess(dist[names[i]], curDist)
              THEN ScanMin(names, dist, vis, i + 1, names[i], dist[names[i]])
              ELSE ScanMin(names, dist, vis, i + 1, cur, curDist)

\* current_dist is never lowered: the last unvisited finite vertex wins
SelectMin_LastFinite(names, dist, vis) ==
    LET c == {i \in DOMAIN names :
                names[i] \notin Range(vis) /\ dist[names[i]] # INF}
    IN IF c = {} THEN None
       ELSE names[CHOOSE i \in c : \A j \in c : j <= i]

\* the scan runs over sorted(vertices) instead of the insertion order
SelectMin_ByName(names, dist, vis) ==
    LET Present(n) == n \in Range(names)
    IN ScanMin(SelectSeq(<<"A", "B", "C", "D">>, Present), dist, vis, 1, None, INF)

\* distances[v] <= current_dist: with no finite candidate the first unvisited
\* vertex is selected at distance infinity
SelectMin_Infinite(names, dist, vis) ==
    LET c == ScanMin(names, dist, vis, 1, None, INF)
        rest == {i \in DOMAIN names : names[i] \notin Range(vis)}
    IN IF c # None \/ rest = {} THEN c
       ELSE names[CHOOSE i \in rest : \A j \in rest : i <= j]

\* the test `if v in visited: continue` is missing
SelectMin_Revisit(names, dist, vis) == ScanMin(names, dist, <<>>, 1, None, INF)

\* the scan stops at the first unvisited vertex of finite distance
SelectMin_FirstFinite(names, dist, vis) ==
    LET c == {i \in DOMAIN names :
                names[i] \notin Range(vis) /\ dist[names[i]] # INF}
    IN IF c = {} THEN None
       ELSE names[CHOOSE i \in c : \A j \in c : i <= j]

SelectMin(names, dist, vis) == ScanMin(names, dist, vis, 1, None, INF)

\* distances[source] = 0.0 is missing
InitDistances_NoSource(names, src) == [v \in Range(names) |-> INF]

\* distances = {v: INF ...}; distances[source] = 0.0
\* every vertex starts at distance 0.0
InitDistances_AllZero(names, src) == [v \in Range(names) |-> 0]

InitDistances(names, src) == [v \in Range(names) |-> IF v = src THEN 0 ELSE INF]

InitPrevious(names) == [v \in Range(names) |-> None]

\* the test of the source is missing
SourceKnown_Unchecked(names, src) == TRUE

\* source not in vertices
SourceKnown(names, src) == src \in Range(names)

\* alt = weight
Alt_WeightOnly(dist, cur, weight) == weight

\* alt = distances[current] + weight
Alt(dist, cur, weight) == dist[cur] + weight

\* only a neighbour never reached before is updated
Improves_FirstOnly(alt, old) == old = INF

\* alt <= distances[neighbor]: a tie updates as well
Improves_Ties(alt, old) == old = INF \/ alt <= old

\* alt < distances[neighbor]
Improves(alt, old) == DistLess(alt, old)

\* total = distances.get(target)
EngineTotal_Get(dist, tgt, p) == IF tgt \in DOMAIN dist THEN dist[tgt] ELSE NoValue

\* total = distances[target] if path else None
EngineTotal(dist, tgt, p) == IF p # <<>> THEN dist[tgt] ELSE NoValue

\* result.path = [source, target]
FacadePath_Pair(src, tgt, p) == IF src = tgt THEN <<src, tgt>> ELSE p

\* find_shortest_path: the override for source == target
FacadePath(src, tgt, p) == IF src = tgt THEN <<src>> ELSE p

FacadeTotal(src, tgt, tot) == IF src = tgt THEN 0 ELSE tot

\* only the source is tested
EndpointsKnown_SourceOnly(vs, src, tgt) == \E i \in DOMAIN vs : vs[i].name = src

\* find_shortest_path: the fail-fast test on the endpoints
EndpointsKnown(vs, src, tgt) == HasVertex(vs, src) /\ HasVertex(vs, tgt)

\* the values the run's variables hold while no run is in progress
Idle ==
    /\ distances = <<>> /\ previous = <<>> /\ visited = <<>> /\ steps = <<>>
    /\ current = None /\ queue = <<>> /\ path = <<>> /\ total = NoValue

\* entry of run_dijkstra up to the while loop
Enter(s, t) ==
    /\ invoked' = TRUE
    /\ source' = s
    /\ target' = t
    /\ UNCHANGED <<graphVars, current, queue, path, total>>
    /\ IF ~SourceKnown(VertexNames(vertices), s)
       THEN /\ pc' = "done"
            /\ outcome' = "ValueError"
            /\ UNCHANGED <<distances, previous, visited, steps>>
       ELSE /\ pc' = "loop"
            /\ outcome' = "running"
            /\ distances' = InitDistances(VertexNames(vertices), s)
            /\ previous' = InitPrevious(VertexNames(vertices))
            /\ visited' = <<>>
            /\ steps' = <<>>

\* a client calls run_dijkstra(graph, s, t) directly
RunDijkstra(s, t) ==
    /\ pc = "idle"
    /\ caller' = "run_dijkstra"
    /\ Enter(s, t)

\* a client calls PathService.find_shortest_path(s, t)
FindShortestPath(s, t) ==
    /\ pc = "idle"
    /\ caller' = "find_shortest_path"
    /\ IF EndpointsKnown(vertices, s, t)
       THEN Enter(s, t)
       ELSE /\ pc' = "done"
            /\ outcome' = "None"
            /\ source' = s
            /\ target' = t
            /\ UNCHANGED <<graphVars, invoked, runVars>>

\* the test current == target is missing: the target's neighbours are
\* relaxed like any other vertex's and no terminal Step is recorded
SelectCurrent_NoEarlyExit ==
    /\ pc = "loop"
    /\ UNCHANGED <<graphVars, caller, invoked, outcome, source, target,
                   distances, previous, path, total>>
    /\ LET names == VertexNames(vertices)
           cur == SelectMin(names, distances, visited)
       IN IF Len(visited) >= Len(names) \/ cur = None
          THEN /\ pc' = "finish"
               /\ UNCHANGED <<visited, steps, current, queue>>
          ELSE /\ current' = cur
               /\ visited' = Append(visited, cur)
               /\ steps' = steps
               /\ queue' = Neighbors(adjacency, cur)
               /\ pc' = IF queue' = <<>> THEN "loop" ELSE "relax"

\* `target is None or current == target`: without a target the loop stops
\* at the first vertex it selects
SelectCurrent_StopsWithoutTarget ==
    /\ pc = "loop"
    /\ UNCHANGED <<graphVars, caller, invoked, outcome, source, target,
                   distances, previous, path, total>>
    /\ LET names == VertexNames(vertices)
           cur == SelectMin(names, distances, visited)
       IN IF Len(visited) >= Len(names) \/ cur = None
          THEN /\ pc' = "finish"
               /\ UNCHANGED <<visited, steps, current, queue>>
          ELSE /\ current' = cur
               /\ visited' = Append(visited, cur)
               /\ IF target = None \/ cur = target
                  THEN /\ steps' = Append(steps,
                              Step(cur, None, NoValue, distances, visited'))
                       /\ queue' = <<>>
                       /\ pc' = "finish"
                  ELSE /\ steps' = steps
                       /\ queue' = Neighbors(adjacency, cur)
                       /\ pc' = IF queue' = <<>> THEN "loop" ELSE "relax"

\* one pass of the while loop up to the relaxation of the neighbours
SelectCurrent ==
    /\ pc = "loop"
    /\ UNCHANGED <<graphVars, caller, invoked, outcome, source, target,
                   distances, previous, path, total>>
    /\ LET names == VertexNames(vertices)
           cur == SelectMin(names, distances, visited)
       IN IF Len(visited) >= Len(names) \/ cur = None
          THEN /\ pc' = "finish"
               /\ UNCHANGED <<visited, steps, current, queue>>
          ELSE /\ current' = cur
               /\ visited' = Append(visited, cur)
               /\ IF target # None /\ cur = target
                  THEN /\ steps' = Append(steps,
                              Step(cur, None, NoValue, distances, visited'))
                       /\ queue' = <<>>
                       /\ pc' = "finish"
                  ELSE /\ steps' = steps
                       /\ queue' = Neighbors(adjacency, cur)
                       /\ pc' = IF queue' = <<>> THEN "loop" ELSE "relax"

\* the for loop consumes the neighbour map of current: the entry it has
\* handled is popped from the adjacency map
Relax_WritesGraph ==
    /\ pc = "relax"
    /\ queue # <<>>
    /\ UNCHANGED <<vertices, edges, caller, invoked, outcome, source, target,
                   visited, current, path, total>>
    /\ adjacency' = PopArc(adjacency, current, Head(queue).neighbor)
    /\ queue' = Tail(queue)
    /\ pc' = IF queue' = <<>> THEN "loop" ELSE "relax"
    /\ LET neighbor == Head(queue).neighbor
           alt == Alt(distances, current, Head(queue).weight)
       IN IF neighbor \in Range(visited)
          THEN UNCHANGED <<distances, previous, steps>>
          ELSE IF Improves(alt, distances[neighbor])
               THEN /\ distances' = [distances EXCEPT ![neighbor] = alt]
                    /\ previous' = [previous EXCEPT ![neighbor] = current]
                    /\ steps' = Append(steps,
                           Step(current, neighbor, alt, distances', visited))
               ELSE /\ UNCHANGED <<distances, previous>>
                    /\ steps' = Append(steps,
                           Step(current, neighbor, NoValue, distances, visited))

\* Step(distances=distances) without dict(): every Step shares the live
\* distances map, so each recorded Step shows the latest distances
Relax_SharedSnapshot ==
    /\ pc = "relax"
    /\ queue # <<>>
    /\ UNCHANGED <<graphVars, caller, invoked, outcome, source, target,
                   visited, current, path, total>>
    /\ queue' = Tail(queue)
    /\ pc' = IF queue' = <<>> THEN "loop" ELSE "relax"
    /\ LET neighbor == Head(queue).neighbor
           alt == Alt(distances, current, Head(queue).weight)
           Shared(sts, dist) ==
               [i \in DOMAIN sts |-> [sts[i] EXCEPT !.distances = dist]]
       IN IF neighbor \in Range(visited)
          THEN UNCHANGED <<distances, previous, steps>>
          ELSE IF Improves(alt, distances[neighbor])
               THEN /\ distances' = [distances EXCEPT ![neighbor] = alt]
                    /\ previous' = [previous EXCEPT ![neighbor] = current]
                    /\ steps' = Shared(Append(steps,
                           Step(current, neighbor, alt, distances', visited)),
                           distances')
               ELSE /\ UNCHANGED <<distances, previous>>
                    /\ steps' = Append(steps,
                           Step(current, neighbor, NoValue, distances, visited))

\* one pass of the for loop over graph.neighbors(current).items()
Relax ==
    /\ pc = "relax"
    /\ queue # <<>>
    /\ UNCHANGED <<graphVars, caller, invoked, outcome, source, target,
                   visited, current, path, total>>
    /\ queue' = Tail(queue)
    /\ pc' = IF queue' = <<>> THEN "loop" ELSE "relax"
    /\ LET neighbor == Head(queue).neighbor
           alt == Alt(distances, current, Head(queue).weight)
       IN IF neighbor \in Range(visited)
          THEN UNCHANGED <<distances, previous, steps>>
          ELSE IF Improves(alt, distances[neighbor])
               THEN /\ distances' = [distances EXCEPT ![neighbor] = alt]
                    /\ previous' = [previous EXCEPT ![neighbor] = current]
                    /\ steps' = Append(steps,
                           Step(current, neighbor, alt, distances', visited))
               ELSE /\ UNCHANGED <<distances, previous>>
                    /\ steps' = Append(steps,
                           Step(current, neighbor, NoValue, distances, visited))

\* after the loop: reconstruct the path, build the result, return through
\* the facade when the facade made the call
Return ==
    /\ pc = "finish"
    /\ pc' = "done"
    /\ outcome' = "result"
    /\ UNCHANGED <<graphVars, caller, invoked, source, target, distances,
                   previous, visited, steps, current, queue>>
    /\ LET p == IF target # None
                THEN ReconstructPath(previous, source, target) ELSE <<>>
           tot == IF target # None
                  THEN EngineTotal(distances, target, p) ELSE NoValue
       IN IF caller = "find_shortest_path"
          THEN /\ path' = FacadePath(source, target, p)
               /\ total' = FacadeTotal(source, target, tot)
          ELSE /\ path' = p
               /\ total' = tot

(***************************************************************************)
(* Specifications.                                                         *)
(***************************************************************************)
\* insertion orders of the vertex map the graphs are drawn with
VertexOrders == {<<>>, <<"A">>, <<"A", "B">>, <<"A", "B", "C">>}

ArcPairs(order) == {p \in Range(order) \X Range(order) : p[1] # p[2]}

InitCall ==
    /\ pc = "idle"
    /\ caller = "none"
    /\ invoked = FALSE
    /\ outcome = "none"
    /\ source = None
    /\ target = None
    /\ Idle

\* any graph over the names, loaded through the mutation API; no call yet
Init ==
    /\ \E order \in VertexOrders :
         \E chosen \in SUBSET ArcPairs(order) :
           \E arcs \in [chosen -> Weights] :
             LET g == LoadGraph(order, arcs)
             IN /\ vertices = g.vertices
                /\ edges = g.edges
                /\ adjacency = g.adjacency
    /\ InitCall

\* the names a caller may pass: the graph's vertices and one unknown name
CallNames == Range(VertexNames(vertices)) \cup {Unknown}

Next ==
    \/ \E s \in CallNames : \E t \in CallNames \cup {None} : RunDijkstra(s, t)
    \/ \E s \in CallNames : \E t \in CallNames : FindShortestPath(s, t)
    \/ SelectCurrent
    \/ Relax
    \/ Return

Spec == Init /\ [][Next]_vars

\* a call, once made, keeps executing: the code is single-threaded and
\* synchronous, so each enabled step of the call is eventually taken
SpecFair ==
    /\ Init /\ [][Next]_vars
    /\ WF_vars(SelectCurrent) /\ WF_vars(Relax) /\ WF_vars(Return)

\* insertion orders that differ from the alphabetical order of the names
ShuffledOrders == {<<"B", "A">>, <<"C", "A", "B">>}

\* any graph whose vertices were inserted in one of these orders; no call yet
InitShuffled ==
    /\ \E order \in ShuffledOrders :
         \E chosen \in SUBSET ArcPairs(order) :
           \E arcs \in [chosen -> Weights] :
             LET g == LoadGraph(order, arcs)
             IN /\ vertices = g.vertices
                /\ edges = g.edges
                /\ adjacency = g.adjacency
    /\ InitCall

SpecShuffled == InitShuffled /\ [][Next]_vars

\* the road map A-B=1, B-C=2, A-C=4, C-D=1, built through the mutation API
ScenarioGraph ==
    LET g0 == AddVertices(EmptyGraph, <<"A", "B", "C", "D">>)
        g1 == AddUndirectedEdge(g0, "A", "B", 1)
        g2 == AddUndirectedEdge(g1, "B", "C", 2)
        g3 == AddUndirectedEdge(g2, "A", "C", 4)
    IN AddUndirectedEdge(g3, "C", "D", 1)

InitScenario ==
    /\ vertices = ScenarioGraph.vertices
    /\ edges = ScenarioGraph.edges
    /\ adjacency = ScenarioGraph.adjacency
    /\ InitCall

SpecScenario == InitScenario /\ [][Next]_vars

(***************************************************************************)
(* The Graph under its mutation API, from the empty graph.                 *)
(***************************************************************************)
\* the arguments the editor passes: names, weights, positions
GraphNames == {"A", "B", "C"}

EdgeWeights == {3, 5}

DefaultPosition == <<0, 0>>

\* the arguments of the runs that vary the positions
PositionNames == {"A", "B"}

Positions == {DefaultPosition, <<1, 2>>}

\* the Graph object as a value
Graph == [vertices |-> vertices, edges |-> edges, adjacency |-> adjacency]

\* a mutation call that leaves the Graph as g; no search is in progress
Mutate(g) ==
    /\ pc = "idle"
    /\ Len(g.edges) > Len(edges) => Len(edges) < MaxEdges
    /\ vertices' = g.vertices
    /\ edges' = g.edges
    /\ adjacency' = g.adjacency
    /\ UNCHANGED <<pc, caller, invoked, outcome, source, target, runVars>>

CallAddVertex(n, pos) == Mutate(AddVertex(Graph, n, pos[1], pos[2]))

CallRemoveVertex(n) == Mutate(RemoveVertex(Graph, n))

CallAddDirectedEdge(a, b, w) == Mutate(AddDirectedEdge(Graph, a, b, w))

CallAddUndirectedEdge(a, b, w) == Mutate(AddUndirectedEdge(Graph, a, b, w))

CallAddEdge(a, b, w) == Mutate(AddEdge(Graph, a, b, w))

CallRemoveDirectedEdge(a, b) == Mutate(RemoveDirectedEdge(Graph, a, b))

CallRemoveUndirectedEdge(a, b) == Mutate(RemoveUndirectedEdge(Graph, a, b))

CallRemoveEdge(a, b) == Mutate(RemoveEdge(Graph, a, b))

CallSetVertexPosition(n, pos) ==
    Mutate(SetVertexPosition(Graph, n, pos[1], pos[2]))

InitGraph ==
    /\ vertices = EmptyGraph.vertices
    /\ edges = EmptyGraph.edges
    /\ adjacency = EmptyGraph.adjacency
    /\ InitCall

\* any mutation call with names and positions drawn from the given sets
GraphStep(names, positions) ==
    \/ \E n \in names : \E pos \in positions : CallAddVertex(n, pos)
    \/ \E n \in names : CallRemoveVertex(n)
    \/ \E a, b \in names : \E w \in EdgeWeights : CallAddDirectedEdge(a, b, w)
    \/ \E a, b \in names : \E w \in EdgeWeights : CallAddUndirectedEdge(a, b, w)
    \/ \E a, b \in names : \E w \in EdgeWeights : CallAddEdge(a, b, w)
    \/ \E a, b \in names : CallRemoveDirectedEdge(a, b)
    \/ \E a, b \in names : CallRemoveUndirectedEdge(a, b)
    \/ \E a, b \in names : CallRemoveEdge(a, b)
    \/ \E n \in names : \E pos \in positions : CallSetVertexPosition(n, pos)

NextGraph == GraphStep(GraphNames, {DefaultPosition})

SpecGraph == InitGraph /\ [][NextGraph]_vars

NextPositions == GraphStep(PositionNames, Positions)

SpecPositions == InitGraph /\ [][NextPositions]_vars

(***************************************************************************)
(* Reference definitions the properties are stated with: arcs, directed    *)
(* paths and their weights, defined on the adjacency map alone.            *)
(***************************************************************************)
VertexSet == Range(VertexNames(vertices))

IsArc(u, v) == \E i \in DOMAIN Neighbors(adjacency, u) :
                  Neighbors(adjacency, u)[i].neighbor = v

ArcWeight(u, v) ==
    LET nbrs == Neighbors(adjacency, u)
    IN nbrs[CHOOSE i \in DOMAIN nbrs : nbrs[i].neighbor = v].weight

FollowsArcs(p) == \A i \in 1..(Len(p) - 1) : IsArc(p[i], p[i + 1])

RECURSIVE PathWeight(_)
PathWeight(p) ==
    IF Len(p) <= 1 THEN 0
    ELSE ArcWeight(p[1], p[2]) + PathWeight(Tail(p))

\* the directed paths from s to t that repeat no vertex; with weights >= 0
\* a minimum over all directed paths is attained on one of these
SimplePaths(s, t) ==
    {p \in UNION {[1..n -> VertexSet] : n \in 1..Cardinality(VertexSet)} :
        /\ p[1] = s
        /\ p[Len(p)] = t
        /\ \A i, j \in DOMAIN p : i # j => p[i] # p[j]
        /\ FollowsArcs(p)}

Reachable(s, t) == SimplePaths(s, t) # {}

MinPathWeight(s, t) ==
    LET ws == {PathWeight(p) : p \in SimplePaths(s, t)}
    IN CHOOSE m \in ws : \A w \in ws : m <= w

\* a + w and a <= b on floats, where a or b may be float("inf")
DistPlus(a, w) == IF a = INF THEN INF ELSE a + w

DistLeq(a, b) == b = INF \/ (a # INF /\ a <= b)

Returned == pc = "done" /\ outcome = "result"

ByEngine == caller = "run_dijkstra"

ByFacade == caller = "find_shortest_path"

StoppedAtTarget == target # None /\ target \in Range(visited)

(***************************************************************************)
(* C1: for a target reachable from source, run_dijkstra returns a path     *)
(* from source to target along arcs of the adjacency map whose weight, and *)
(* the returned total, is the minimum weight of a directed path from       *)
(* source to target.                                                       *)
(***************************************************************************)
C1_ShortestPath ==
    (Returned /\ ByEngine /\ target # None /\ Reachable(source, target))
    => /\ path # <<>>
       /\ path[1] = source
       /\ path[Len(path)] = target
       /\ FollowsArcs(path)
       /\ PathWeight(path) = MinPathWeight(source, target)
       /\ total = MinPathWeight(source, target)

\* a two-arc path returned although a heavier direct arc exists
C1_Witness ==
    /\ Returned /\ ByEngine /\ target # None
    /\ Len(path) = 3
    /\ IsArc(source, target)
    /\ ArcWeight(source, target) > total

(***************************************************************************)
(* C2 as claimed: at termination, with or without a target, every arc      *)
(* (u,v) with u reachable from source has                                  *)
(* distances[v] <= distances[u] + weight(u,v).                             *)
(***************************************************************************)
C2_NoRelaxationLeft ==
    Returned =>
        \A u, v \in VertexSet :
            (Reachable(source, u) /\ IsArc(u, v))
            => DistLeq(distances[v], DistPlus(distances[u], ArcWeight(u, v)))

(***************************************************************************)
(* C2 amended: the inequality holds for every arc (u,v) with u reachable   *)
(* from source when the loop did not stop at a supplied target; when it    *)
(* did, it holds for the arcs leaving the vertices visited before target.  *)
(***************************************************************************)
C2_NoRelaxationLeftUnlessStopped ==
    Returned =>
        \A u, v \in VertexSet :
            /\ (~StoppedAtTarget /\ Reachable(source, u) /\ IsArc(u, v))
               => DistLeq(distances[v], DistPlus(distances[u], ArcWeight(u, v)))
            /\ (StoppedAtTarget /\ u \in Range(visited) /\ u # target /\ IsArc(u, v))
               => DistLeq(distances[v], DistPlus(distances[u], ArcWeight(u, v)))

\* a run with no target in which a first estimate was improved later
C2_Witness ==
    /\ Returned /\ ByEngine /\ target = None
    /\ \E i, j \in DOMAIN steps :
          /\ i < j
          /\ steps[i].neighbor = steps[j].neighbor
          /\ steps[i].new_distance # NoValue
          /\ steps[j].new_distance # NoValue

(***************************************************************************)
(* C3: with no target, distances[v] is the minimum weight of a directed    *)
(* path from source to v for every vertex v reachable from source, and     *)
(* +infinity for every other vertex.                                       *)
(***************************************************************************)
C3_AllDistancesMinimal ==
    (Returned /\ ByEngine /\ target = None)
    => /\ DOMAIN distances = VertexSet
       /\ \A v \in VertexSet :
             distances[v] = IF Reachable(source, v)
                            THEN MinPathWeight(source, v) ELSE INF

\* a vertex got its distance over two arcs although a heavier direct arc exists
C3_Witness ==
    /\ Returned /\ ByEngine /\ target = None
    /\ \E v \in VertexSet :
          /\ previous[v] # None /\ previous[v] # source
          /\ IsArc(source, v)
          /\ ArcWeight(source, v) > distances[v]

(***************************************************************************)
(* C4: the source's distance is 0 throughout a run: in the distances map,  *)
(* in the result and in the snapshot of every recorded Step.               *)
(***************************************************************************)
C4_SourceDistanceZero ==
    (outcome \in {"running", "result"})
    => /\ distances[source] = 0
       /\ \A i \in DOMAIN steps : steps[i].distances[source] = 0

\* a finished run in which an arc of weight 0 back into source was examined
C4_Witness ==
    /\ Returned
    /\ Len(steps) >= 2
    /\ \E u \in VertexSet : IsArc(u, source) /\ ArcWeight(u, source) = 0
                            /\ u \in Range(visited)

(***************************************************************************)
(* C5: a non-empty result path follows arcs of the adjacency map and the   *)
(* sum of their weights equals the result's total.                         *)
(***************************************************************************)
C5_PathWeightIsTotal ==
    (Returned /\ path # <<>>)
    => /\ FollowsArcs(path)
       /\ PathWeight(path) = total

\* a path of two arcs with a positive total
C5_Witness ==
    /\ Returned /\ Len(path) = 3 /\ total > 0

(***************************************************************************)
(* C6: find_shortest_path(s, s) for a vertex s returns path = [s] and      *)
(* total = 0, whatever arcs s has.                                         *)
(***************************************************************************)
C6_SameEndpoints ==
    (pc = "done" /\ ByFacade /\ source = target /\ source \in VertexSet)
    => /\ outcome = "result"
       /\ path = <<source>>
       /\ total = 0

\* the vertex has arcs out and in, and the engine ran for the trace
C6_Witness ==
    /\ Returned /\ ByFacade /\ source = target
    /\ invoked /\ steps # <<>>
    /\ Neighbors(adjacency, source) # <<>>
    /\ \E u \in VertexSet : IsArc(u, source)

(***************************************************************************)
(* C7: on the road map A-B=1, B-C=2, A-C=4, C-D=1, run_dijkstra(A, D)      *)
(* returns path = [A,B,C,D] and total = 4.                                 *)
(***************************************************************************)
C7_Scenario ==
    (pc = "done" /\ ByEngine /\ source = "A" /\ target = "D")
    => /\ outcome = "result"
       /\ path = <<"A", "B", "C", "D">>
       /\ total = 4

\* the call returned, having examined the direct road A-C of weight 4
C7_Witness ==
    /\ Returned /\ ByEngine /\ source = "A" /\ target = "D"
    /\ \E i \in DOMAIN steps :
          /\ steps[i].current = "A"
          /\ steps[i].neighbor = "C"
          /\ steps[i].new_distance = 4

(***************************************************************************)
(* C8: for a source that is a vertex and a supplied target that is not     *)
(* reachable from it (isolated, in another component, or no vertex at      *)
(* all), run_dijkstra returns a result with path = [] and total = None.    *)
(***************************************************************************)
C8_UnreachableTarget ==
    (pc = "done" /\ ByEngine /\ source \in VertexSet /\ target # None
        /\ ~Reachable(source, target))
    => /\ outcome = "result"
       /\ path = <<>>
       /\ total = NoValue

\* the target is a vertex with arcs of its own that the search never reached
C8_Witness ==
    /\ Returned /\ ByEngine /\ target \in VertexSet
    /\ ~Reachable(source, target)
    /\ Neighbors(adjacency, target) # <<>>
    /\ steps # <<>>

\* the target is an isolated vertex
C8_WitnessIsolated ==
    /\ Returned /\ ByEngine /\ target \in VertexSet
    /\ Neighbors(adjacency, target) = <<>>
    /\ \A u \in VertexSet : ~IsArc(u, target)
    /\ source # target

\* the target is no vertex of the graph
C8_WitnessUnknown ==
    /\ Returned /\ ByEngine /\ target # None /\ target \notin VertexSet
    /\ steps # <<>>

(***************************************************************************)
(* C9: run_dijkstra with a source that is not a vertex raises the          *)
(* vertex-not-found error, for any graph and any target, and produces no   *)
(* result: the call never enters the loop.                                 *)
(***************************************************************************)
C9_UnknownSourceRaises ==
    (ByEngine /\ pc # "idle" /\ source \notin VertexSet)
    => /\ pc = "done"
       /\ outcome = "ValueError"
       /\ Idle

\* raised on a graph that has vertices, with a target that is one of them
C9_Witness ==
    /\ ByEngine /\ outcome = "ValueError"
    /\ vertices # <<>>
    /\ target \in VertexSet

\* raised on the empty graph
C9_WitnessEmpty ==
    /\ ByEngine /\ outcome = "ValueError" /\ vertices = <<>>

(***************************************************************************)
(* C10: find_shortest_path returns None, without raising and without       *)
(* entering the engine, when source or target is not a vertex; when both   *)
(* are vertices it returns a result; it never raises vertex-not-found.     *)
(***************************************************************************)
C10_FacadeFailsFast ==
    ByFacade =>
        /\ outcome # "ValueError"
        /\ (source \notin VertexSet \/ target \notin VertexSet)
           => (pc = "done" /\ outcome = "None" /\ ~invoked /\ Idle)
        /\ (pc = "done" /\ source \in VertexSet /\ target \in VertexSet)
           => (outcome = "result" /\ invoked)

\* None returned for a known source and an unknown target
C10_Witness ==
    /\ ByFacade /\ pc = "done" /\ outcome = "None"
    /\ source \in VertexSet
    /\ target \notin VertexSet

\* a result returned for two distinct vertices
C10_WitnessResult ==
    /\ ByFacade /\ Returned /\ source # target /\ path # <<>>

(***************************************************************************)
(* The mutation contract of Graph (graph.py), checked on the steps of the  *)
(* mutation calls from every graph state those calls can reach.            *)
(***************************************************************************)
\* the records of the arc u -> v in the edge-record list, in order
RecordsOf(es, u, v) ==
    LET Same(e) == e.source = u /\ e.target = v
    IN SelectSeq(es, Same)

\* C11: after add_undirected_edge(a, b, w) with a # b, called in any graph
\* state, neighbors(a)[b] = w and neighbors(b)[a] = w
C11_UndirectedEdgeBothWays ==
    [][\A a, b \in GraphNames : \A w \in EdgeWeights :
         (a # b /\ CallAddUndirectedEdge(a, b, w)) =>
            (/\ IsArc(a, b) /\ ArcWeight(a, b) = w
             /\ IsArc(b, a) /\ ArcWeight(b, a) = w)']_vars

\* add_undirected_edge(A, B, 3) has been called on a graph whose arc B -> A
\* had weight 5: both directions now weigh 3
C11_Witness ==
    /\ edges = <<Edge("B", "A", 5), Edge("A", "B", 3), Edge("B", "A", 3)>>
    /\ ArcWeight("A", "B") = 3
    /\ ArcWeight("B", "A") = 3

\* name occurs somewhere in the graph: as a vertex, as a key of the adjacency
\* map, as an entry of a neighbour map, or as an endpoint of an edge record
Mentions(name) ==
    \/ HasVertex(vertices, name)
    \/ name \in DOMAIN adjacency
    \/ \E k \in DOMAIN adjacency :
         \E i \in DOMAIN adjacency[k] : adjacency[k][i].neighbor = name
    \/ \E i \in DOMAIN edges : edges[i].source = name \/ edges[i].target = name

\* C12: after remove_vertex(v), called in any graph state, v is not in the
\* vertex map, not a key of the adjacency map, not an entry of any neighbour
\* map, and not the source or target of any edge record
C12_RemovedVertexIsGone ==
    [][\A v \in GraphNames : CallRemoveVertex(v) => ~Mentions(v)']_vars

\* B has an incoming and an outgoing arc, each with its edge record, and
\* remove_vertex(B) leaves the vertices A, C with no arc and no record
C12_Witness ==
    /\ VertexNames(vertices) = <<"A", "B", "C">>
    /\ IsArc("A", "B") /\ IsArc("B", "C")
    /\ Len(RecordsOf(edges, "A", "B")) = 1
    /\ Len(RecordsOf(edges, "B", "C")) = 1
    /\ ENABLED (/\ CallRemoveVertex("B")
                /\ VertexNames(vertices') = <<"A", "C">>
                /\ edges' = <<>>
                /\ ~IsArc("A", "B")')

\* C13: add_directed_edge(a, b, w) for a pair that already has an arc sets
\* the adjacency weight to w, the last weight written, and appends one more
\* record after the earlier ones; so after add_directed_edge(A, B, 5) then
\* add_directed_edge(A, B, 3), neighbors(A)[B] = 3 and the records are
\* (A, B, 5), (A, B, 3) in that order
C13_LastWriteWins ==
    [][\A a, b \in GraphNames : \A w \in EdgeWeights :
         (a # b /\ IsArc(a, b) /\ CallAddDirectedEdge(a, b, w)) =>
            /\ (IsArc(a, b) /\ ArcWeight(a, b) = w)'
            /\ Len(Neighbors(adjacency', a)) = Len(Neighbors(adjacency, a))
            /\ edges' = Append(edges, Edge(a, b, w))
            /\ RecordsOf(edges', a, b) = Append(RecordsOf(edges, a, b), Edge(a, b, w))]_vars

\* the graph after add_directed_edge(A, B, 5) then add_directed_edge(A, B, 3)
C13_Witness ==
    /\ edges = <<Edge("A", "B", 5), Edge("A", "B", 3)>>
    /\ Neighbors(adjacency, "A") = <<[neighbor |-> "B", weight |-> 3]>>

\* C14: add_vertex(name, x, y) for a name that is already a vertex leaves the
\* vertex map and its order, the stored position, the adjacency map and the
\* edge records unchanged, also when (x, y) differs from the stored position
C14_AddVertexIdempotent ==
    [][\A n \in PositionNames : \A pos \in Positions :
         (HasVertex(vertices, n) /\ CallAddVertex(n, pos)) =>
            (vertices' = vertices /\ edges' = edges /\ adjacency' = adjacency)]_vars

\* B, the second vertex, is stored at (1, 2) and has arcs; add_vertex(B, 0, 0)
\* is called and leaves B where it was
C14_Witness ==
    /\ vertices = <<Vertex("A", 0, 0), Vertex("B", 1, 2)>>
    /\ IsArc("A", "B") /\ IsArc("B", "A")
    /\ ENABLED (/\ CallAddVertex("B", DefaultPosition)
                /\ vertices' = <<Vertex("A", 0, 0), Vertex("B", 1, 2)>>)

\* no neighbour map holds its own vertex and no edge record has source = target
NoSelfLoop ==
    /\ \A k \in DOMAIN adjacency :
         \A i \in DOMAIN adjacency[k] : adjacency[k][i].neighbor # k
    /\ \A i \in DOMAIN edges : edges[i].source # edges[i].target

\* C15: add_directed_edge(v, v, w), add_undirected_edge(v, v, w) and
\* add_edge(v, v, w) leave the vertex map, the adjacency map and the edge
\* records unchanged, also when v is no vertex, and no reachable graph state
\* holds an arc or an edge record with source = target
C15_SelfLoopsRejected ==
    [][/\ \A v \in GraphNames : \A w \in EdgeWeights :
            (\/ CallAddDirectedEdge(v, v, w)
             \/ CallAddUndirectedEdge(v, v, w)
             \/ CallAddEdge(v, v, w)) =>
               (vertices' = vertices /\ edges' = edges /\ adjacency' = adjacency)
       /\ NoSelfLoop /\ NoSelfLoop']_vars

\* C is no vertex of a graph with an arc; the three self-loop calls on C are
\* made and C is still no vertex
C15_Witness ==
    /\ IsArc("A", "B")
    /\ ~HasVertex(vertices, "C")
    /\ ENABLED (CallAddDirectedEdge("C", "C", 3) /\ ~HasVertex(vertices', "C"))
    /\ ENABLED (CallAddUndirectedEdge("C", "C", 3) /\ ~HasVertex(vertices', "C"))
    /\ ENABLED (CallAddEdge("C", "C", 5) /\ edges' = edges)

\* the step removes the arcs of the given (source, target) pairs from the
\* adjacency map and from the edge records, and changes nothing else: same
\* vertices, same adjacency keys, every other entry and record kept in order
RemovesOnly(pairs) ==
    /\ vertices' = vertices
    /\ DOMAIN adjacency' = DOMAIN adjacency
    /\ \A u \in DOMAIN adjacency :
         LET Keep(it) == <<u, it.neighbor>> \notin pairs
         IN adjacency'[u] = SelectSeq(adjacency[u], Keep)
    /\ LET KeepRecord(e) == <<e.source, e.target>> \notin pairs
       IN edges' = SelectSeq(edges, KeepRecord)

\* C16: remove_directed_edge(a, b) deletes the adjacency entry a -> b and
\* every record (a, b) and leaves b -> a, the records (b, a), all other arcs
\* and all vertices unchanged; remove_undirected_edge(a, b) deletes both
\* directions from the adjacency map and the records and nothing else
C16_RemoveEdgeFrame ==
    [][\A a, b \in GraphNames :
         /\ CallRemoveDirectedEdge(a, b) => RemovesOnly({<<a, b>>})
         /\ CallRemoveUndirectedEdge(a, b) => RemovesOnly({<<a, b>>, <<b, a>>})]_vars

\* A and B are joined in both directions next to the arc B -> C;
\* remove_directed_edge(A, B) leaves B -> A and B -> C, and
\* remove_undirected_edge(A, B) leaves B -> C only
C16_Witness ==
    /\ edges = <<Edge("B", "C", 5), Edge("A", "B", 3), Edge("B", "A", 3)>>
    /\ ENABLED (/\ CallRemoveDirectedEdge("A", "B")
                /\ edges' = <<Edge("B", "C", 5), Edge("B", "A", 3)>>
                /\ (~IsArc("A", "B") /\ IsArc("B", "A") /\ IsArc("B", "C"))')
    /\ ENABLED (/\ CallRemoveUndirectedEdge("A", "B")
                /\ edges' = <<Edge("B", "C", 5)>>
                /\ (~IsArc("A", "B") /\ ~IsArc("B", "A") /\ IsArc("B", "C"))')

\* C17: removals of absent entities change nothing: remove_vertex of a name
\* that is no vertex, remove_directed_edge of an arc that is not in the
\* adjacency map, and remove_undirected_edge / remove_edge of a pair with no
\* arc in either direction, whether or not the endpoints are vertices, leave
\* the vertex map, the adjacency map and the edge records unchanged
C17_AbsentRemovalsAreNoOps ==
    [][/\ \A v \in GraphNames :
            (~HasVertex(vertices, v) /\ CallRemoveVertex(v)) =>
               (vertices' = vertices /\ edges' = edges /\ adjacency' = adjacency)
       /\ \A a, b \in GraphNames :
            (~IsArc(a, b) /\ CallRemoveDirectedEdge(a, b)) =>
               (vertices' = vertices /\ edges' = edges /\ adjacency' = adjacency)
       /\ \A a, b \in GraphNames :
            (/\ ~IsArc(a, b) /\ ~IsArc(b, a)
             /\ CallRemoveUndirectedEdge(a, b) \/ CallRemoveEdge(a, b)) =>
               (vertices' = vertices /\ edges' = edges /\ adjacency' = adjacency)]_vars

\* the graph holds the arc A -> B only and C is no vertex: remove_vertex(C),
\* remove_directed_edge(B, A), remove_directed_edge(C, A),
\* remove_undirected_edge(A, C) and remove_edge(C, C) are each called and
\* each leaves the graph as it was
C17_Witness ==
    /\ VertexNames(vertices) = <<"A", "B">>
    /\ edges = <<Edge("A", "B", 3)>>
    /\ ENABLED (CallRemoveVertex("C") /\ vertices' = vertices)
    /\ ENABLED (CallRemoveDirectedEdge("B", "A") /\ edges' = edges)
    /\ ENABLED (CallRemoveDirectedEdge("C", "A") /\ adjacency' = adjacency)
    /\ ENABLED (CallRemoveUndirectedEdge("A", "C") /\ adjacency' = adjacency)
    /\ ENABLED (CallRemoveEdge("C", "C") /\ adjacency' = adjacency)

\* C18: in every reachable graph state neighbors(name) returns, for a vertex,
\* its neighbour map (one entry per neighbour, present exactly for the pairs
\* that have an edge record, with the weight of the last record; empty when
\* the vertex has no outgoing arc) and, for a name that is no vertex, the
\* empty map
C18_NeighborsTotal ==
    \A n \in GraphNames \cup {Unknown} :
        LET nbrs == Neighbors(adjacency, n)
        IN IF HasVertex(vertices, n)
           THEN /\ n \in DOMAIN adjacency
                /\ nbrs = adjacency[n]
                /\ \A i, j \in DOMAIN nbrs :
                     nbrs[i].neighbor = nbrs[j].neighbor => i = j
                /\ \A t \in GraphNames :
                     LET recs == RecordsOf(edges, n, t)
                     IN IF recs = <<>> THEN ~IsArc(n, t)
                        ELSE IsArc(n, t) /\ ArcWeight(n, t) = recs[Len(recs)].weight
           ELSE nbrs = <<>>

\* A has the neighbour B, written twice, B is a vertex without outgoing arcs
\* and C is no vertex
C18_Witness ==
    /\ VertexNames(vertices) = <<"A", "B">>
    /\ edges = <<Edge("A", "B", 5), Edge("A", "B", 3)>>
    /\ Neighbors(adjacency, "A") = <<[neighbor |-> "B", weight |-> 3]>>
    /\ Neighbors(adjacency, "B") = <<>>
    /\ Neighbors(adjacency, "C") = <<>>
    /\ Neighbors(adjacency, Unknown) = <<>>

(***************************************************************************)
(* The engine and the facade as readers of the graph.                      *)
(***************************************************************************)
\* C19: no step of run_dijkstra or find_shortest_path, from the call to the
\* return, the ValueError of an absent source or the None of an absent
\* endpoint, changes the vertex map, the adjacency map or the edge records
C19_GraphReadOnly ==
    [][vertices' = vertices /\ edges' = edges /\ adjacency' = adjacency]_vars

\* a call through the facade has returned after visiting three vertices and
\* recording relaxations, on a graph with edge records
C19_Witness ==
    /\ Returned /\ ByFacade
    /\ Len(visited) = 3
    /\ Len(steps) >= 3
    /\ Len(edges) >= 3

\* run_dijkstra has raised ValueError for an absent source on a graph with arcs
C19_WitnessAbsentSource ==
    /\ pc = "done" /\ outcome = "ValueError" /\ source = Unknown
    /\ edges # <<>>

\* run_dijkstra has returned for an absent target on a graph with arcs
C19_WitnessAbsentTarget ==
    /\ Returned /\ ByEngine /\ target = Unknown
    /\ Len(visited) >= 2
    /\ edges # <<>>

\* C20: the vertex a pass of the main loop appends to visited is unvisited,
\* has the smallest distance of all unvisited vertices, and among the
\* unvisited vertices of that distance is the first in the insertion order of
\* the vertex map; the visited sequence is thereby fixed by that order
C20_VisitOrder ==
    [][(pc = "loop" /\ visited' # visited) =>
         LET names == VertexNames(vertices)
             c == visited'[Len(visited')]
             Unvisited == {u \in Range(names) : u \notin Range(visited)}
             Index(u) == CHOOSE i \in DOMAIN names : names[i] = u
         IN /\ visited' = Append(visited, c)
            /\ c \in Unvisited
            /\ distances[c] # INF
            /\ \A u \in Unvisited : DistLeq(distances[c], distances[u])
            /\ \A u \in Unvisited :
                 distances[u] = distances[c] => Index(c) <= Index(u)]_vars

\* the vertices were inserted as C, A, B; from A both C and B are at distance
\* 1, and C, inserted first, was visited before B
C20_Witness ==
    /\ VertexNames(vertices) = <<"C", "A", "B">>
    /\ Returned /\ ByEngine /\ source = "A" /\ target = None
    /\ distances["B"] = 1 /\ distances["C"] = 1
    /\ visited = <<"A", "C", "B">>

(***************************************************************************)
(* The trace of run_dijkstra: the Steps it records and the order of its    *)
(* writes.                                                                 *)
(***************************************************************************)
\* the trace ends with the terminal Step of the target, the only Step whose
\* current is the target, and the search is past its loop
TargetStepIsLast ==
    /\ steps # <<>>
    /\ steps[Len(steps)] = Step(target, None, NoValue, distances, visited)
    /\ visited[Len(visited)] = target
    /\ \A i \in DOMAIN steps : steps[i].current = target => i = Len(steps)
    /\ pc \in {"finish", "done"}

\* C21: once a supplied target has been selected as current, the trace ends
\* with one Step (current = target, neighbor = none, new_distance = none),
\* target is the last element of visited, no Step has current = target with a
\* neighbor, the loop is left, and from then on no distance, predecessor,
\* visited entry or Step changes
C21_TargetStops ==
    [][/\ StoppedAtTarget' => TargetStepIsLast'
       /\ StoppedAtTarget =>
             UNCHANGED <<distances, previous, visited, steps>>]_vars

\* a call has returned after stopping at a target that was reached over an
\* arc and has an arc of its own to a vertex that was never visited
C21_Witness ==
    /\ Returned /\ ByEngine /\ StoppedAtTarget
    /\ source # target
    /\ Len(steps) >= 2
    /\ \E v \in VertexSet : IsArc(target, v) /\ v \notin Range(visited)

\* C22: a pass of the relaxation loop over a neighbor of current that is not
\* visited sets distances[neighbor] and previous[neighbor] and records a Step
\* with new_distance = alt when alt = distances[current] + weight is strictly
\* less than distances[neighbor]; when alt >= distances[neighbor], a tie
\* included, it changes neither map and records a Step with new_distance =
\* none; over a visited neighbor it records no Step and changes nothing
C22_StrictImprovementOnly ==
    [][(pc = "relax") =>
         LET neighbor == Head(queue).neighbor
             alt == distances[current] + Head(queue).weight
             old == distances[neighbor]
         IN IF neighbor \in Range(visited)
            THEN UNCHANGED <<distances, previous, steps>>
            ELSE /\ Len(steps') = Len(steps) + 1
                 /\ SubSeq(steps', 1, Len(steps)) = steps
                 /\ steps'[Len(steps')].current = current
                 /\ steps'[Len(steps')].neighbor = neighbor
                 /\ IF old = INF \/ alt < old
                    THEN /\ distances' = [distances EXCEPT ![neighbor] = alt]
                         /\ previous' = [previous EXCEPT ![neighbor] = current]
                         /\ steps'[Len(steps')].new_distance = alt
                    ELSE /\ UNCHANGED <<distances, previous>>
                         /\ steps'[Len(steps')].new_distance = NoValue]_vars

\* the trace holds an improving Step and a Step over a tie (alt equal to the
\* neighbor's distance) that left the neighbor's predecessor alone, and some
\* vertex had a visited neighbor, for which it recorded no Step
C22_Witness ==
    /\ Returned /\ ByEngine
    /\ \E i \in DOMAIN steps : steps[i].new_distance \notin {NoValue, 0}
    /\ \E i \in DOMAIN steps :
         LET st == steps[i]
         IN /\ st.neighbor # None
            /\ st.new_distance = NoValue
            /\ st.distances[st.neighbor] =
                   st.distances[st.current] + ArcWeight(st.current, st.neighbor)
            /\ previous[st.neighbor] # st.current
    /\ \E u, v \in Range(visited) :
         /\ IsArc(u, v)
         /\ \A i \in DOMAIN steps :
              ~(steps[i].current = u /\ steps[i].neighbor = v)

\* C23: a Step, when it is recorded, holds the distances map as it is right
\* after the relaxation decision (so distances[neighbor] = new_distance when
\* new_distance is not none) and the visited sequence of that moment, whose
\* last element is the Step's current; and no later step of the search
\* changes a Step already in the trace
C23_StepSnapshots ==
    [][/\ Len(steps') >= Len(steps)
       /\ SubSeq(steps', 1, Len(steps)) = steps
       /\ Len(steps') > Len(steps) =>
             LET st == steps'[Len(steps')]
             IN /\ Len(steps') = Len(steps) + 1
                /\ st.distances = distances'
                /\ st.visited = visited'
                /\ st.visited[Len(st.visited)] = st.current
                /\ st.new_distance # NoValue =>
                      st.distances[st.neighbor] = st.new_distance]_vars

\* a returned trace whose first Step shows a distances map and a visited
\* sequence that both differ from the final ones
C23_Witness ==
    /\ Returned /\ ByEngine
    /\ Len(steps) >= 3
    /\ steps[1].new_distance # NoValue
    /\ steps[1].distances # distances
    /\ steps[1].visited # visited
    /\ steps[1].distances[steps[1].neighbor] # distances[steps[1].neighbor]

\* run_dijkstra is past its initialisation
Searching == invoked /\ outcome \in {"running", "result"}

\* no unvisited vertex has a finite distance
NoFiniteUnvisited ==
    \A v \in VertexSet : v \in Range(visited) \/ distances[v] = INF

\* C24: when no unvisited vertex has a finite distance the main loop ends
\* without another visit; a vertex with no directed path from source is never
\* in visited, is the current of no Step, and has distance infinity and
\* predecessor none throughout the search and in the result
C24_UnreachableUntouched ==
    [][/\ (pc = "loop" /\ NoFiniteUnvisited) =>
             (pc' = "finish" /\ UNCHANGED <<visited, steps, distances, previous>>)
       /\ Searching' =>
             \A v \in VertexSet : ~Reachable(source, v)' =>
                (/\ v \notin Range(visited)
                 /\ \A i \in DOMAIN steps : steps[i].current # v
                 /\ distances[v] = INF
                 /\ previous[v] = None)']_vars

\* a search over the whole graph has returned with one vertex left out: it
\* has an arc of its own but no path from source leads to it
C24_Witness ==
    /\ Returned /\ ByEngine /\ target = None
    /\ Len(visited) = 2
    /\ \E v \in VertexSet :
         /\ ~Reachable(source, v)
         /\ IsArc(v, source)
         /\ distances[v] = INF

\* the while loop of _reconstruct_path, started at v, ends within n passes
RECURSIVE WalkEnds(_, _)
WalkEnds(v, n) ==
    IF v = None \/ v = source THEN TRUE
    ELSE IF n = 0 THEN FALSE
         ELSE WalkEnds(Get(previous, v), n - 1)

\* visited holds no vertex twice and never more vertices than the graph has
VisitedOnce ==
    /\ \A i, j \in DOMAIN visited : visited[i] = visited[j] => i = j
    /\ Len(visited) <= Len(vertices)

\* C25: a run_dijkstra call with a source in the graph returns a result:
\* each pass of the main loop leaves the loop or appends one vertex that was
\* not yet in visited, so visited never repeats a vertex and never exceeds
\* the number of vertices; and the walk of _reconstruct_path ends from every
\* vertex (and from a target outside the graph) for every predecessor map
\* the loop produces
C25_Terminates ==
    /\ [][pc = "loop" =>
            \/ pc' = "finish" /\ visited' = visited
            \/ /\ Len(visited') = Len(visited) + 1
               /\ SubSeq(visited', 1, Len(visited)) = visited
               /\ visited'[Len(visited')] \notin Range(visited)]_vars
    /\ [](Searching =>
            /\ VisitedOnce
            /\ \A v \in VertexSet \cup {Unknown} : WalkEnds(v, Len(vertices)))
    /\ (Searching /\ pc # "done") ~> (pc = "done" /\ outcome = "result")

\* a call has returned after as many passes as the graph has vertices, with
\* a path walked back over two predecessors
C25_Witness ==
    /\ Returned /\ ByEngine
    /\ Len(visited) = 3 /\ Len(vertices) = 3
    /\ Len(path) = 3

\* C26: a run_dijkstra call without a target returns path = [] and total =
\* none, records no Step with neighbor = none, and has visited every vertex
\* that a directed path from source leads to
C26_NoTarget ==
    (Returned /\ ByEngine /\ target = None) =>
        /\ path = <<>>
        /\ total = NoValue
        /\ \A i \in DOMAIN steps : steps[i].neighbor # None
        /\ \A v \in VertexSet : Reachable(source, v) => v \in Range(visited)
        /\ DOMAIN distances = VertexSet /\ DOMAIN previous = VertexSet

\* a call without a target has returned after visiting all three vertices,
\* the last one over two arcs
C26_Witness ==
    /\ Returned /\ ByEngine /\ target = None
    /\ Len(visited) = 3
    /\ steps # <<>>
    /\ previous[visited[3]] = visited[2]

(***************************************************************************)
(* Structural invariants of Graph.                                         *)
(***************************************************************************)
\* C27: after any sequence of mutation calls from the empty graph, the keys
\* of the adjacency map are exactly the vertices, every neighbor in a
\* neighbour map is a vertex, and both endpoints of every edge record are
\* vertices
C27_GraphWellFormed ==
    /\ DOMAIN adjacency = VertexSet
    /\ \A k \in DOMAIN adjacency :
         \A i \in DOMAIN adjacency[k] : adjacency[k][i].neighbor \in VertexSet
    /\ \A i \in DOMAIN edges :
         edges[i].source \in VertexSet /\ edges[i].target \in VertexSet

\* B, created by an edge call, is joined to A and C; remove_vertex(B) is
\* called and leaves A and C with no record
C27_Witness ==
    /\ VertexNames(vertices) = <<"A", "B", "C">>
    /\ edges = <<Edge("A", "B", 3), Edge("B", "C", 5), Edge("C", "B", 5)>>
    /\ ENABLED (/\ CallRemoveVertex("B")
                /\ VertexNames(vertices') = <<"A", "C">>
                /\ edges' = <<>>)

\* C28: after any sequence of mutation calls, an ordered pair (u, v) has an
\* adjacency entry exactly when the edge-record list holds a record (u, v),
\* and the adjacency weight of (u, v) is the weight of the last such record
C28_RecordsAgreeWithAdjacency ==
    \A u, v \in GraphNames :
        LET recs == RecordsOf(edges, u, v)
        IN /\ IsArc(u, v) <=> recs # <<>>
           /\ IsArc(u, v) => ArcWeight(u, v) = recs[Len(recs)].weight

\* the records are no mirror of the adjacency map: A -> B has two records,
\* of weights 5 and 3, and one adjacency entry, of weight 3
C28_Witness ==
    /\ edges = <<Edge("A", "B", 5), Edge("A", "B", 3), Edge("B", "A", 3)>>
    /\ Len(Neighbors(adjacency, "A")) = 1
    /\ ArcWeight("A", "B") = 3
    /\ ArcWeight("B", "A") = 3

\* every Step shows, for each vertex visited at its moment, the distance the
\* vertex has now, and the distances along visited never decrease
VisitedAreFinal ==
    /\ \A i \in DOMAIN steps :
         \A v \in Range(steps[i].visited) : steps[i].distances[v] = distances[v]
    /\ \A i, j \in DOMAIN visited :
         i < j => /\ distances[visited[i]] # INF
                  /\ distances[visited[j]] # INF
                  /\ distances[visited[i]] <= distances[visited[j]]

\* C29: no step of the search changes the distance or the predecessor of a
\* vertex already in visited, so every later Step and the result show the
\* distance the vertex had when it was visited; and, the weights being
\* non-negative, the distances of the visited vertices do not decrease in
\* visit order
C29_VisitedFinal ==
    [][/\ Searching =>
             \A v \in Range(visited) :
                distances'[v] = distances[v] /\ previous'[v] = previous[v]
       /\ Searching' => VisitedAreFinal']_vars

\* a returned search that visited three vertices at distances 0 < 1 < 2 and
\* whose first Step shows the last vertex at a distance lowered afterwards
C29_Witness ==
    /\ Returned /\ ByEngine
    /\ Len(visited) = 3
    /\ distances[visited[2]] = 1
    /\ distances[visited[3]] = 2
    /\ steps[1].distances[visited[3]] # 2

\* C30: a call with source = target, through run_dijkstra or through
\* find_shortest_path, returns a trace of exactly one Step (current = s,
\* neighbor = none, new_distance = none, visited = [s]) and every vertex
\* other than s has distance infinity in the result, whatever arcs s has
C30_SourceIsTarget ==
    (Returned /\ source = target) =>
        /\ Len(steps) = 1
        /\ steps[1].current = source
        /\ steps[1].neighbor = None
        /\ steps[1].new_distance = NoValue
        /\ steps[1].visited = <<source>>
        /\ steps[1].distances = distances
        /\ visited = <<source>>
        /\ distances[source] = 0
        /\ \A v \in VertexSet \ {source} :
             distances[v] = INF /\ previous[v] = None

\* find_shortest_path(s, s) has returned on a graph of three vertices where
\* s has arcs to both others
C30_Witness ==
    /\ Returned /\ ByFacade /\ source = target
    /\ Len(vertices) = 3
    /\ \A v \in VertexSet \ {source} : IsArc(source, v)

\* run_dijkstra(graph, s, s) has returned on such a graph
C30_WitnessEngine ==
    /\ Returned /\ ByEngine /\ source = target
    /\ Len(vertices) = 3
    /\ \A v \in VertexSet \ {source} : IsArc(source, v)

================================================================
